---- MODULE Spec2Model ----
(***************************************************************************)
(* Model of the chat-log emotion pipeline:                                 *)
(*   emotion_analysis.classify_texts_in_bulk   (batched classifier)        *)
(*   data_parsers.parse_whatsapp_lines         (line-oriented extractor)   *)
(*   data_parsers.parse_telegram_html          (node-oriented extractor)   *)
(*   pipeline.main                             (load, sort, merge)         *)
(*   text_cleaning.extract_emojis, clean_text  (normaliser)                *)
(* Each component has its own specification over the shared variables;     *)
(* the variables of the other components stay at their idle values.        *)
(***************************************************************************)
EXTENDS Integers, Sequences, FiniteSets, TLC

VARIABLES
    \* ---- classify_texts_in_bulk ----
    texts,                  \* the input list (text identities; the prompt is opaque to the model)
    max_per_chunk,          \* the chunk size argument
    VALID_EMOTIONS,         \* config.VALID_EMOTIONS, a list of label strings
    UNKNOWN_EMOTION_LABEL,  \* config.UNKNOWN_EMOTION_LABEL
    start_idx,              \* loop variable of `for start_idx in range(0, total_texts, max_per_chunk)`
    results,                \* the running output list
    responses,              \* history: what the remote service did on each chunk, in call order
    calls,                  \* history: the batch of each remote call, and len(results) when it was issued
    cl_pc,                  \* "loop" while iterating, "returned" after `return results`
    \* ---- parse_whatsapp_lines ----
    wa_file,                \* the file at filepath: its lines and what is wrong with it
    wa_line_num,            \* number of lines the scan has consumed
    data,                   \* the list of records built so far
    wa_df,                  \* the returned DataFrame (its rows)
    wa_pc,                  \* "idle", "scan" or "returned"
    \* ---- parse_telegram_html ----
    tg_doc,                 \* the document at filepath: msg_divs in document order, and its fault
    div_num,                \* number of nodes the scan has consumed
    last_sender,            \* the carried sender
    messages_list,          \* the list of records built so far
    tg_df,                  \* the DataFrame the current call returns (empty until it does)
    tg_pc,                  \* "idle", "scan" or "returned"
    \* ---- pipeline.main ----
    wa_dir,                 \* the .txt files os.listdir gives for data/raw/WhatsApp, in order
    wa_idx,                 \* number of them processed
    tg_dir,                 \* the .html files os.listdir gives for data/raw/Telegram, in order
    tg_idx,                 \* number of them processed
    all_whatsapp_dfs,       \* the DataFrames parse_whatsapp_lines returned
    all_telegram_dfs,       \* the DataFrames parse_telegram_html returned
    df_whatsapp,            \* the sorted, mapped WhatsApp rows
    df_telegram,            \* the sorted, mapped Telegram rows
    df_concat,              \* pd.concat([df_whatsapp, df_telegram]): the rows before the sort
    sort_index,             \* the index of df after sort_values, before reset_index
    df,                     \* the merged rows
    pl_pc,                  \* "idle", "load_whatsapp", "load_telegram", "unify", "merged", "no_data"
    \* ---- text_cleaning (pipeline.main, step 4) ----
    message,                \* the raw message text, a sequence of characters
    message_emoji,          \* extract_emojis(message)
    message_clean,          \* clean_text(message)
    nm_pc                   \* "idle", "raw", "extracted" or "cleaned"

cl_vars == <<texts, max_per_chunk, VALID_EMOTIONS, UNKNOWN_EMOTION_LABEL,
             start_idx, results, responses, calls, cl_pc>>

wa_vars == <<wa_file, wa_line_num, data, wa_df, wa_pc>>

tg_vars == <<tg_doc, div_num, last_sender, messages_list, tg_df, tg_pc>>

pl_vars == <<wa_dir, wa_idx, tg_dir, tg_idx, all_whatsapp_dfs, all_telegram_dfs,
             df_whatsapp, df_telegram, df_concat, sort_index, df, pl_pc>>

nm_vars == <<message, message_emoji, message_clean, nm_pc>>

vars == <<cl_vars, wa_vars, tg_vars, pl_vars, nm_vars>>

\* What each component leaves alone.
cl_others == <<wa_vars, tg_vars, pl_vars, nm_vars>>
wa_others == <<cl_vars, tg_vars, pl_vars, nm_vars>>
tg_others == <<cl_vars, wa_vars, pl_vars, nm_vars>>
pl_others == <<cl_vars, wa_vars, tg_vars, nm_vars>>
nm_others == <<cl_vars, wa_vars, tg_vars, pl_vars>>

-----------------------------------------------------------------------------
(* Bounds of the model *)
MaxTexts == 5
MaxChunk == 2
MaxLines == 3
MaxNodes == 3
MaxFiles == 2
MaxFrags == 3

-----------------------------------------------------------------------------
(* Generic helpers *)

Min(a, b) == IF a < b THEN a ELSE b

\* [x] * n
Fill(x, n) == [k \in 1..n |-> x]

SeqRange(s) == {s[k] : k \in 1..Len(s)}

-----------------------------------------------------------------------------
(* classify_texts_in_bulk *)

\* The label strings that occur in configurations and in service responses.
LabelStrings == {"amor", "Amor", "ira", "otro", "neutro", "Neutro"}

\* str.lower() on the label strings.
Lower(s) ==
    CASE s = "Amor"   -> "amor"
      [] s = "Neutro" -> "neutro"
      [] OTHER        -> s

\* Configurations (VALID_EMOTIONS and UNKNOWN_EMOTION_LABEL come from .env):
\* lower-case labels, a capitalised label, a label set that contains the
\* lower-cased fallback, and the empty default list.
Configs ==
    { [valid |-> <<"amor", "ira">>,    unknown |-> "Neutro"],
      [valid |-> <<"Amor">>,           unknown |-> "Neutro"],
      [valid |-> <<"amor", "neutro">>, unknown |-> "Neutro"],
      [valid |-> <<>>,                 unknown |-> "Neutro"] }

\* Values of a parsed JSON object: a string, or a value that is not a string
\* (a number, null, a list); Absent marks a key that the object does not have.
NonString == "<non-string>"
Absent    == "<absent>"
JsonValues == {"amor", "Amor", "otro", NonString}

\* What the remote call can do for a batch of n items.  Only the keys
\* "1".."n" are ever looked up, so an object is its restriction to them;
\* key str(i) is written i.
ServiceResponses(n) ==
    { [kind |-> "raise",      obj |-> <<>>],     \* the call raises
      [kind |-> "notjson",    obj |-> <<>>],     \* content is not JSON
      [kind |-> "json_other", obj |-> <<>>] }    \* JSON, but not an object
    \cup
    { [kind |-> "json_object", obj |-> o] : o \in [1..n -> JsonValues \cup {Absent}] }

\* parsed_json.get(key, UNKNOWN_EMOTION_LABEL)
JsonGet(obj, i) == IF obj[i] = Absent THEN UNKNOWN_EMOTION_LABEL ELSE obj[i]

\* [emo.lower() for emo in VALID_EMOTIONS]
LoweredValid == {Lower(VALID_EMOTIONS[k]) : k \in 1..Len(VALID_EMOTIONS)}

\* The label appended for one item whose value is a string (lines 118-121).
ItemLabel(raw) ==
    LET raw_emo == Lower(raw)
    IN  IF raw_emo \notin LoweredValid THEN UNKNOWN_EMOTION_LABEL ELSE raw_emo

\* The extraction loop `for i in range(len(batch))`: acc is what it has
\* appended so far; .lower() on a value that is not a string raises
\* AttributeError, which leaves the loop with acc already in results.
RECURSIVE ExtractLoop(_, _, _, _)
ExtractLoop(obj, i, n, acc) ==
    IF i > n THEN [exc |-> FALSE, acc |-> acc]
    ELSE IF JsonGet(obj, i) = NonString THEN [exc |-> TRUE, acc |-> acc]
    ELSE ExtractLoop(obj, i + 1, n, Append(acc, ItemLabel(JsonGet(obj, i))))

\* `for _ in batch: results.append(UNKNOWN_EMOTION_LABEL)`
FallbackFill(n) == Fill(UNKNOWN_EMOTION_LABEL, n)

\* Everything one loop iteration appends to results for a batch of n items.
ChunkAppended(n, resp) ==
    CASE resp.kind = "raise"      -> FallbackFill(n)      \* except Exception
      [] resp.kind = "notjson"    -> FallbackFill(n)      \* except JSONDecodeError
      [] resp.kind = "json_other" -> FallbackFill(n)      \* .get raises at i = 0
      [] OTHER ->
           LET r == ExtractLoop(resp.obj, 1, n, <<>>)
           IN  IF r.exc THEN r.acc \o FallbackFill(n)     \* except Exception
               ELSE r.acc

\* len(texts[start_idx : start_idx + max_per_chunk])
BatchLen(start) == Min(max_per_chunk, Len(texts) - start)

ClInit ==
    /\ \E n \in 0..MaxTexts : texts = [k \in 1..n |-> k]
    /\ max_per_chunk \in 1..MaxChunk
    /\ \E c \in Configs :
          /\ VALID_EMOTIONS = c.valid
          /\ UNKNOWN_EMOTION_LABEL = c.unknown
    /\ start_idx = 0
    /\ results = <<>>
    /\ responses = <<>>
    /\ calls = <<>>
    /\ cl_pc = "loop"

\* batch = texts[start_idx : start_idx + max_per_chunk]
Batch(start) == SubSeq(texts, start + 1, start + BatchLen(start))

\* An iteration that does not advance after a call that raised.
ClassifyChunk_RetryOnRaise ==
    /\ cl_pc = "loop"
    /\ start_idx < Len(texts)
    /\ calls' = Append(calls, [batch |-> Batch(start_idx), appended |-> Len(results)])
    /\ \E resp \in ServiceResponses(BatchLen(start_idx)) :
          /\ results' = results \o ChunkAppended(BatchLen(start_idx), resp)
          /\ responses' = Append(responses, resp)
          /\ start_idx' = IF resp.kind = "raise" THEN start_idx
                          ELSE start_idx + max_per_chunk
    /\ UNCHANGED <<texts, max_per_chunk, VALID_EMOTIONS, UNKNOWN_EMOTION_LABEL, cl_pc>>
    /\ UNCHANGED cl_others

\* One iteration of the chunk loop: the remote call, the parse, the appends.
ClassifyChunk ==
    /\ cl_pc = "loop"
    /\ start_idx < Len(texts)
    /\ calls' = Append(calls, [batch |-> Batch(start_idx), appended |-> Len(results)])
    /\ \E resp \in ServiceResponses(BatchLen(start_idx)) :
          /\ results' = results \o ChunkAppended(BatchLen(start_idx), resp)
          /\ responses' = Append(responses, resp)
    /\ start_idx' = start_idx + max_per_chunk
    /\ UNCHANGED <<texts, max_per_chunk, VALID_EMOTIONS, UNKNOWN_EMOTION_LABEL, cl_pc>>
    /\ UNCHANGED cl_others

\* The range is exhausted: `return results`.
ClassifyReturn ==
    /\ cl_pc = "loop"
    /\ start_idx >= Len(texts)
    /\ cl_pc' = "returned"
    /\ UNCHANGED <<texts, max_per_chunk, VALID_EMOTIONS, UNKNOWN_EMOTION_LABEL,
                   start_idx, results, responses, calls>>
    /\ UNCHANGED cl_others

\* The classifier is not running (the other components' specifications).
ClIdle ==
    /\ texts = <<>>
    /\ max_per_chunk = 1
    /\ VALID_EMOTIONS = <<>>
    /\ UNKNOWN_EMOTION_LABEL = "Neutro"
    /\ start_idx = 0
    /\ results = <<>>
    /\ responses = <<>>
    /\ calls = <<>>
    /\ cl_pc = "idle"

ClNext == ClassifyChunk \/ ClassifyReturn

-----------------------------------------------------------------------------
(* Text helpers: strings are sequences of characters (or of opaque tokens) *)

\* s[i], or "" past either end.
At(s, i) == IF i \in 1..Len(s) THEN s[i] ELSE ""

\* s.startswith(sub, i)
MatchesAt(s, sub, i) ==
    /\ i + Len(sub) - 1 <= Len(s)
    /\ \A k \in 1..Len(sub) : s[i + k - 1] = sub[k]

\* s.replace(old, new) for a non-empty old: left to right, not overlapping.
RECURSIVE ReplaceFrom(_, _, _, _)
ReplaceFrom(s, old, new, i) ==
    IF i > Len(s) THEN <<>>
    ELSE IF MatchesAt(s, old, i)
         THEN new \o ReplaceFrom(s, old, new, i + Len(old))
         ELSE <<s[i]>> \o ReplaceFrom(s, old, new, i + 1)

Replace(s, old, new) == ReplaceFrom(s, old, new, 1)

\* s.find(sub) + 1: the first position where sub occurs, 0 when it does not.
RECURSIVE FindFrom(_, _, _)
FindFrom(s, sub, i) ==
    IF i + Len(sub) - 1 > Len(s) THEN 0
    ELSE IF MatchesAt(s, sub, i) THEN i
    ELSE FindFrom(s, sub, i + 1)

Find(s, sub) == FindFrom(s, sub, 1)

\* A character under str.lower() / re.IGNORECASE.
LowerChar(c) ==
    CASE c = "A" -> "a"
      [] c = "P" -> "p"
      [] c = "M" -> "m"
      [] OTHER   -> c

LowerSeq(s) == [k \in 1..Len(s) |-> LowerChar(s[k])]

\* \s of the regex: the plain space and the no-break spaces (written "nbsp")
\* that WhatsApp exports put before the meridiem.
IsRegexSpace(c) == c \in {" ", "nbsp"}

\* Calendar: days of a month, as datetime checks them.
IsLeap(y) == (y % 4 = 0 /\ y % 100 # 0) \/ y % 400 = 0
DaysInMonth(m, y) ==
    CASE m \in {4, 6, 9, 11} -> 30
      [] m = 2 -> (IF IsLeap(y) THEN 29 ELSE 28)
      [] OTHER -> 31

-----------------------------------------------------------------------------
(* parse_whatsapp_lines *)

\* A line of the export.  A "dated" line has the shape
\*   <day>/<month>/<year>, <hour>:<minute><mer> - <content>
\* with 1-2 digit day, month and hour, a 4 digit year and a 2 digit minute;
\* mer is the text between the minute and the blanks before the dash.
\* A "notice" line has no leading date-time.
DatedLine(d, m, y, h, mi, mer, content) ==
    [kind |-> "dated", day |-> d, month |-> m, year |-> y,
     hour |-> h, minute |-> mi, mer |-> mer, content |-> content]

NoticeLine ==
    [kind |-> "notice", day |-> 0, month |-> 0, year |-> 0,
     hour |-> 0, minute |-> 0, mer |-> <<>>, content |-> <<"aviso">>]

\* Meridiem texts found in exports.
MeridiemTexts ==
    { <<" ", "a", ".", " ", "m", ".">>,      \* " a. m."
      <<" ", "a", ".", "m", ".">>,           \* " a.m."
      <<" ", "a", "m">>,                     \* " am"
      <<" ", "p", ".", " ", "m", ".">>,      \* " p. m."
      <<" ", "p", ".", "m", ".">>,           \* " p.m."
      <<" ", "p", "m">>,                     \* " pm"
      <<"p", "m">>,                          \* "pm"
      <<" ", "P", ".", "M", ".">>,           \* " P.M."
      <<"nbsp", "p", ".", "m", ".">>,        \* no-break space, then "p.m."
      <<>> }                                 \* a 24-hour export: no meridiem

\* Message contents, as tokens.
Contents ==
    { <<"Ana", ":", " ", "Hola">>,                       \* "Ana: Hola"
      <<"Hola">>,                                        \* no ": "
      <<"Ana", ":", " ", "a", ":", " ", "b">>,           \* two ": "
      <<"Ana", ":", "Hola">> }                           \* ":" without the space

DefaultMer == <<" ", "a", ".", "m", ".">>
DefaultContent == <<"Ana", ":", " ", "Hola">>

\* The lines a file is made of: every meridiem text, dates and hours that
\* do and do not parse, every content, and a notice.
WaLines ==
    { DatedLine(3, 1, 2022, 8, 30, mer, DefaultContent) : mer \in MeridiemTexts }
    \cup { DatedLine(31, 2, 2022, 8, 30, DefaultMer, DefaultContent),     \* 31 February
           DatedLine(3, 1, 2022, 13, 30, DefaultMer, DefaultContent),     \* hour 13
           DatedLine(3, 1, 2022, 12, 5, DefaultMer, DefaultContent),      \* 12:05 a.m.
           DatedLine(4, 1, 2022, 12, 5, <<" ", "p", "m">>, <<"Hola">>) }  \* 12:05 pm
    \cup { DatedLine(3, 1, 2022, 8, 30, DefaultMer, c) : c \in Contents }
    \cup { NoticeLine }

\* The regex piece \s?[ap]\.?m\.? under IGNORECASE, matched against all of mer.
MeridiemMatches(mer) ==
    LET a == IF IsRegexSpace(At(mer, 1)) THEN 2 ELSE 1                \* \s?
        b == a + 1                                                     \* [ap]
        c == IF At(mer, b) = "." THEN b + 1 ELSE b                     \* \.?
        d == c + 1                                                     \* m
        e == IF At(mer, d) = "." THEN d + 1 ELSE d                     \* \.?
    IN  /\ LowerChar(At(mer, a)) \in {"a", "p"}
        /\ LowerChar(At(mer, c)) = "m"
        /\ e = Len(mer) + 1

\* pattern.match(line): the date, the time and the dash are there by the
\* shape of a dated line; the meridiem has to match.
PatternMatches(line) == line.kind = "dated" /\ MeridiemMatches(line.mer)

\* The normalisation chain applied to time_str; the digits and the colon
\* are not touched by it, so it is applied to the meridiem part.
NormalizeTime(mer) ==
    LET s1 == Replace(mer, <<" ">>, <<>>)
        s2 == Replace(s1, <<"a", ".", " ", "m", ".">>, <<"A", "M">>)
        s3 == Replace(s2, <<"p", ".", " ", "m", ".">>, <<"P", "M">>)
        s4 == Replace(s3, <<"a", ".", "m", ".">>, <<"A", "M">>)
        s5 == Replace(s4, <<"p", ".", "m", ".">>, <<"P", "M">>)
        s6 == Replace(s5, <<".">>, <<>>)
    IN  Replace(s6, <<" ">>, <<>>)

\* strptime(date_str + ' ' + time_str, "%d/%m/%Y %I:%M%p") raises ValueError.
StrptimeFails(line) ==
    LET p == LowerSeq(NormalizeTime(line.mer))
    IN  \/ line.month \notin 1..12
        \/ line.day \notin 1..DaysInMonth(line.month, line.year)
        \/ line.hour \notin 1..12                  \* %I
        \/ line.minute \notin 0..59                \* %M
        \/ p \notin {<<"a", "m">>, <<"p", "m">>}   \* %p, case-insensitive

\* The datetime strptime returns: %I and %p give the 24-hour hour.
Strptime(line) ==
    LET pm == LowerSeq(NormalizeTime(line.mer)) = <<"p", "m">>
    IN  [year |-> line.year, month |-> line.month, day |-> line.day,
         hour |-> (line.hour % 12) + (IF pm THEN 12 ELSE 0),
         minute |-> line.minute, second |-> 0]

ColonSpace == <<":", " ">>

\* content.split(': ', 1), or ("SYSTEM", content) when ': ' is not in content.
SplitContent(content) ==
    LET i == Find(content, ColonSpace)
    IN  IF i > 0
        THEN [sender  |-> SubSeq(content, 1, i - 1),
              message |-> SubSeq(content, i + Len(ColonSpace), Len(content))]
        ELSE [sender |-> <<"SYSTEM">>, message |-> content]

\* The record appended for a line that matched and whose date-time parsed.
LineRecord(line) ==
    [datetime |-> Strptime(line),
     sender   |-> SplitContent(line.content).sender,
     message  |-> SplitContent(line.content).message]

\* ScanLine without the `continue` of the ValueError handler.
ScanLine_NoContinue(line, d) ==
    IF ~PatternMatches(line) THEN d
    ELSE Append(d, LineRecord(line))

\* One iteration of `for line_num, line in enumerate(f, start=1)`: the list
\* of records after the line, from the list d before it.
ScanLine(line, d) ==
    IF ~PatternMatches(line) THEN d            \* continue
    ELSE IF StrptimeFails(line) THEN d         \* except ValueError: continue
    ELSE Append(d, LineRecord(line))

\* What the except clauses of the function return.
EmptyDataFrame == <<>>

\* WaOnException returning the records read before the exception.
WaOnException_KeepPartial(d) == [pc |-> "returned", df |-> d]

\* The outcome of an exception raised inside the try block, from the list d
\* built so far: the function returns an empty DataFrame.
WaOnException(d) == [pc |-> "returned", df |-> EmptyDataFrame]

\* What can be wrong with a file: nothing, it does not exist
\* (FileNotFoundError), it cannot be opened (PermissionError), or it is not
\* UTF-8 (UnicodeDecodeError when the read reaches line fault_at).
WaFileOf(lines, fault, at) == [lines |-> lines, fault |-> fault, fault_at |-> at]

\* The faults a file of these lines can have, with the line whose read
\* raises; a file that does not exist or cannot be opened has no lines.
WaFaultsOf(ls) ==
    {[fault |-> "none", at |-> 0]}
    \cup (IF ls = <<>>
          THEN {[fault |-> f, at |-> 0] : f \in {"missing", "unreadable"}}
          ELSE {})
    \cup {[fault |-> "undecodable", at |-> k] : k \in 1..Len(ls)}

WaInit ==
    /\ wa_file = WaFileOf(<<>>, "none", 0)
    /\ wa_line_num = 0
    /\ data = <<>>
    /\ wa_df = EmptyDataFrame
    /\ wa_pc = "idle"

\* parse_whatsapp_lines(filepath) is called on a file: `data = []`, then
\* `with open(filepath, 'r', encoding='utf-8') as f`, which raises for a file
\* that is missing or cannot be opened.
WaOpen ==
    /\ wa_pc = "idle"
    /\ \E n \in 0..MaxLines : \E ls \in [1..n -> WaLines] : \E f \in WaFaultsOf(ls) :
          /\ wa_file' = WaFileOf(ls, f.fault, f.at)
          /\ IF f.fault \in {"missing", "unreadable"}
             THEN /\ wa_pc' = WaOnException(<<>>).pc
                  /\ wa_df' = WaOnException(<<>>).df
             ELSE /\ wa_pc' = "scan"
                  /\ wa_df' = EmptyDataFrame
    /\ data' = <<>>
    /\ wa_line_num' = 0
    /\ UNCHANGED wa_others

\* The read of the next line succeeds and the loop body runs on it.
WaLine ==
    /\ wa_pc = "scan"
    /\ wa_line_num < Len(wa_file.lines)
    /\ ~(wa_file.fault = "undecodable" /\ wa_file.fault_at = wa_line_num + 1)
    /\ data' = ScanLine(wa_file.lines[wa_line_num + 1], data)
    /\ wa_line_num' = wa_line_num + 1
    /\ UNCHANGED <<wa_file, wa_df, wa_pc>>
    /\ UNCHANGED wa_others

\* The read of the next line raises UnicodeDecodeError.
WaDecodeError ==
    /\ wa_pc = "scan"
    /\ wa_file.fault = "undecodable"
    /\ wa_file.fault_at = wa_line_num + 1
    /\ wa_pc' = WaOnException(data).pc
    /\ wa_df' = WaOnException(data).df
    /\ UNCHANGED <<wa_file, wa_line_num, data>>
    /\ UNCHANGED wa_others

\* End of file: `return pd.DataFrame(data, columns=[...])`.
WaReturn ==
    /\ wa_pc = "scan"
    /\ wa_line_num = Len(wa_file.lines)
    /\ wa_df' = data
    /\ wa_pc' = "returned"
    /\ UNCHANGED <<wa_file, wa_line_num, data>>
    /\ UNCHANGED wa_others

WaIdle == WaInit

WaNext == WaOpen \/ WaLine \/ WaDecodeError \/ WaReturn

-----------------------------------------------------------------------------
(* parse_telegram_html *)

\* Python's None, and an element that find() does not find.
NoneVal == "<None>"
NoDiv   == "<no div>"

\* get_text(strip=True) on the texts that occur in documents.
StripText(s) ==
    CASE s = " hola " -> "hola"
      [] s = "  "     -> ""
      [] OTHER        -> s

\* The date element of a node: absent, without a title attribute, or with a
\* title "DD.MM.YYYY HH:MM:SS" followed by the tokens of suffix.
NoDateDiv == [kind |-> "nodiv", day |-> 0, month |-> 0, year |-> 0,
              hour |-> 0, minute |-> 0, second |-> 0, suffix |-> <<>>]
NoTitle   == [kind |-> "notitle", day |-> 0, month |-> 0, year |-> 0,
              hour |-> 0, minute |-> 0, second |-> 0, suffix |-> <<>>]
Title(d, m, y, h, mi, sec, suffix) ==
    [kind |-> "title", day |-> d, month |-> m, year |-> y,
     hour |-> h, minute |-> mi, second |-> sec, suffix |-> suffix]

UtcSuffix == <<" UTC", "-05:00">>

\* date_str.split(" UTC")[0].strip(): what is left after the seconds.
SuffixAfterSplit(suffix) ==
    LET i == Find(suffix, <<" UTC">>)
    IN  IF i = 0 THEN suffix ELSE SubSeq(suffix, 1, i - 1)

\* strptime(parted, "%d.%m.%Y %H:%M:%S") raises ValueError.
TitleFails(date) ==
    \/ SuffixAfterSplit(date.suffix) # <<>>        \* unconverted data remains
    \/ date.month \notin 1..12
    \/ date.day \notin 1..DaysInMonth(date.month, date.year)
    \/ date.hour \notin 0..23
    \/ date.minute \notin 0..59
    \/ date.second \notin 0..61

\* The datetime strptime returns.
TitleDatetime(date) ==
    [year |-> date.year, month |-> date.month, day |-> date.day,
     hour |-> date.hour, minute |-> date.minute, second |-> date.second]

Node(service, date, from, text) ==
    [service |-> service, date |-> date, from_name |-> from, text |-> text]

GoodTitle == Title(3, 1, 2022, 8, 30, 0, UtcSuffix)
BadTitle  == Title(31, 2, 2022, 8, 30, 0, UtcSuffix)     \* 31 February

\* The nodes a document is made of.
TgNodes ==
    { Node(FALSE, d, f, t) : d \in {GoodTitle, BadTitle},
                             f \in {NoDiv, "Ana", "Bob"},
                             t \in {NoDiv, "hola"} }
    \cup
    { Node(TRUE, GoodTitle, NoDiv, "hola"),                           \* service node
      Node(FALSE, NoDateDiv, "Bob", "hola"),                          \* no date element
      Node(FALSE, NoTitle, NoDiv, "hola"),                            \* date element without title
      Node(FALSE, Title(4, 1, 2022, 23, 59, 59, <<>>), NoDiv, "hola"),     \* no UTC suffix
      Node(FALSE, Title(4, 1, 2022, 9, 0, 0, <<" GMT">>), NoDiv, "hola"),  \* another suffix
      Node(FALSE, GoodTitle, "Bob", "  "),                            \* blank text
      Node(FALSE, GoodTitle, "", "hola"),                             \* empty from_name
      Node(FALSE, GoodTitle, NoDiv, " hola ") }                       \* padded text

\* `if last_sender`
Truthy(s) == s # NoneVal /\ s # ""

\* ScanNode without the empty-message check.
ScanNode_KeepEmptyText(node, ls, ml) ==
    IF node.service \/ node.date.kind \in {"nodiv", "notitle"} \/ TitleFails(node.date)
    THEN [last_sender |-> ls, messages_list |-> ml]
    ELSE LET explicit == node.from_name # NoDiv
             sender == IF explicit THEN StripText(node.from_name)
                       ELSE IF Truthy(ls) THEN ls ELSE "Unknown"
             ls2 == IF explicit THEN sender ELSE ls
         IN  IF node.text = NoDiv
             THEN [last_sender |-> ls2, messages_list |-> ml]
             ELSE [last_sender |-> ls2,
                   messages_list |-> Append(ml, [datetime |-> TitleDatetime(node.date),
                                                 sender   |-> sender,
                                                 message  |-> StripText(node.text)])]

\* One iteration of `for div_num, msg_div in enumerate(msg_divs, start=1)`:
\* the carried sender and the list of records after the node, from ls and
\* ml before it.
ScanNode(node, ls, ml) ==
    IF node.service                                   \* service: continue
    THEN [last_sender |-> ls, messages_list |-> ml]
    ELSE IF node.date.kind \in {"nodiv", "notitle"}   \* no date / no title: continue
    THEN [last_sender |-> ls, messages_list |-> ml]
    ELSE IF TitleFails(node.date)                     \* except ValueError: continue
    THEN [last_sender |-> ls, messages_list |-> ml]
    ELSE LET explicit == node.from_name # NoDiv
             sender == IF explicit THEN StripText(node.from_name)
                       ELSE IF Truthy(ls) THEN ls ELSE "Unknown"
             ls2 == IF explicit THEN sender ELSE ls
         IN  IF node.text = NoDiv                     \* no text div: continue
             THEN [last_sender |-> ls2, messages_list |-> ml]
             ELSE IF StripText(node.text) = ""        \* empty message: continue
             THEN [last_sender |-> ls2, messages_list |-> ml]
             ELSE [last_sender |-> ls2,
                   messages_list |-> Append(ml, [datetime |-> TitleDatetime(node.date),
                                                 sender   |-> sender,
                                                 message  |-> StripText(node.text)])]

\* The outcome of an exception raised inside the try block, from the list
\* built so far: the function returns an empty DataFrame.
TgOnException(ml) == [pc |-> "returned", df |-> EmptyDataFrame]

\* A document and what can be wrong with its file; a file that cannot be
\* opened or decoded has no nodes to scan (the whole file is read before
\* the first node is looked at).
TgDocOf(nodes, fault) == [nodes |-> nodes, fault |-> fault]

\* The faults a document of these nodes can have.
TgFaultsOf(ns) ==
    {"none"} \cup (IF ns = <<>> THEN {"missing", "unreadable", "undecodable"} ELSE {})

TgInit ==
    /\ tg_doc = TgDocOf(<<>>, "none")
    /\ div_num = 0
    /\ last_sender = NoneVal
    /\ messages_list = <<>>
    /\ tg_df = EmptyDataFrame
    /\ tg_pc = "idle"

\* parse_telegram_html(filepath) is called on a document: open() and
\* BeautifulSoup(f, 'html.parser') raise for a file that is missing, cannot
\* be opened or is not UTF-8; otherwise the locals are set up for the scan.
TgOpen ==
    /\ tg_pc = "idle"
    /\ \E n \in 0..MaxNodes : \E ns \in [1..n -> TgNodes] : \E f \in TgFaultsOf(ns) :
          /\ tg_doc' = TgDocOf(ns, f)
          /\ IF f # "none"
             THEN /\ tg_pc' = TgOnException(messages_list).pc
                  /\ tg_df' = TgOnException(messages_list).df
                  /\ UNCHANGED <<div_num, last_sender, messages_list>>
             ELSE /\ tg_pc' = "scan"
                  /\ messages_list' = <<>>
                  /\ last_sender' = NoneVal
                  /\ div_num' = 0
                  /\ tg_df' = EmptyDataFrame
    /\ UNCHANGED tg_others

\* The loop body runs on the next node.
TgNode ==
    /\ tg_pc = "scan"
    /\ div_num < Len(tg_doc.nodes)
    /\ LET r == ScanNode(tg_doc.nodes[div_num + 1], last_sender, messages_list)
       IN  /\ last_sender' = r.last_sender
           /\ messages_list' = r.messages_list
    /\ div_num' = div_num + 1
    /\ UNCHANGED <<tg_doc, tg_df, tg_pc>>
    /\ UNCHANGED tg_others

\* After the last node: `return pd.DataFrame(messages_list, columns=[...])`.
TgReturn ==
    /\ tg_pc = "scan"
    /\ div_num = Len(tg_doc.nodes)
    /\ tg_df' = messages_list
    /\ tg_pc' = "returned"
    /\ UNCHANGED <<tg_doc, div_num, last_sender, messages_list>>
    /\ UNCHANGED tg_others

TgIdle == TgInit

TgNext == TgOpen \/ TgNode \/ TgReturn

-----------------------------------------------------------------------------
(* The parsers as whole calls, as pipeline.main uses them *)

\* The scan of parse_whatsapp_lines from line n + 1 on, with d built so far.
RECURSIVE WaScanFrom(_, _, _)
WaScanFrom(file, n, d) ==
    IF file.fault = "undecodable" /\ file.fault_at = n + 1
    THEN WaOnException(d)
    ELSE IF n = Len(file.lines)
    THEN [pc |-> "returned", df |-> d]
    ELSE WaScanFrom(file, n + 1, ScanLine(file.lines[n + 1], d))

parse_whatsapp_lines(file) ==
    IF file.fault \in {"missing", "unreadable"}
    THEN WaOnException(<<>>)
    ELSE WaScanFrom(file, 0, <<>>)

\* The scan of parse_telegram_html from node n + 1 on.
RECURSIVE TgScanFrom(_, _, _, _)
TgScanFrom(doc, n, ls, ml) ==
    IF n = Len(doc.nodes)
    THEN [pc |-> "returned", df |-> ml]
    ELSE LET r == ScanNode(doc.nodes[n + 1], ls, ml)
         IN  TgScanFrom(doc, n + 1, r.last_sender, r.messages_list)

parse_telegram_html(doc) ==
    IF doc.fault # "none"
    THEN TgOnException(<<>>)
    ELSE TgScanFrom(doc, 0, NoneVal, <<>>)

-----------------------------------------------------------------------------
(* pipeline.main: load, sort, map senders, merge *)

\* Sender mappings and fallback of the configuration.
WHATSAPP_SENDER_MAPPING == (<<"Ana">> :> "Ana M.")
TELEGRAM_SENDER_MAPPING == ("Ana" :> "Ana M.")
SENDER_FALLBACK == "Otro"

\* df["sender"].map(mapping).fillna(SENDER_FALLBACK), and the tipo column.
MapRows(rows, mapping, tipo) ==
    [k \in 1..Len(rows) |->
        [datetime |-> rows[k].datetime,
         sender   |-> IF rows[k].sender \in DOMAIN mapping
                      THEN mapping[rows[k].sender] ELSE SENDER_FALLBACK,
         message  |-> rows[k].message,
         tipo     |-> tipo]]

\* pd.concat(dfs, ignore_index=True)
RECURSIVE Concat(_)
Concat(dfs) == IF dfs = <<>> THEN <<>> ELSE Head(dfs) \o Concat(Tail(dfs))

\* The order of datetime values.
DtKey(dt) == <<dt.year, dt.month, dt.day, dt.hour, dt.minute, dt.second>>

RECURSIVE LexLess(_, _, _)
LexLess(a, b, i) ==
    IF i > Len(a) THEN FALSE
    ELSE IF a[i] # b[i] THEN a[i] < b[i]
    ELSE LexLess(a, b, i + 1)

DtLess(x, y) == LexLess(DtKey(x), DtKey(y), 1)

\* p with the row label n put at position k.
InsertAt(p, k, n) == SubSeq(p, 1, k - 1) \o <<n>> \o SubSeq(p, k, Len(p))

\* SortOrders that leaves the rows as they are.
SortOrders_NoSort(rows, n) == {[k \in 1..n |-> k]}

\* The orders sort_values("datetime") can leave the first n rows in, as
\* sequences of row labels.  The default kind is quicksort, which is not
\* stable: rows with equal datetime can come out in either order.
RECURSIVE SortOrders(_, _)
SortOrders(rows, n) ==
    IF n = 0 THEN {<<>>}
    ELSE { InsertAt(p, k, n) :
             <<p, k>> \in { <<q, j>> \in SortOrders(rows, n - 1) \X (1..n) :
                 /\ \A i \in 1..(j - 1) : ~DtLess(rows[n].datetime, rows[q[i]].datetime)
                 /\ \A i \in j..(n - 1) : ~DtLess(rows[q[i]].datetime, rows[n].datetime) } }

\* The rows in the order given by the labels.
Reindex(rows, order) == [k \in 1..Len(order) |-> rows[order[k]]]

\* The files of the two directories: good files, files with lines or nodes
\* that are skipped, and files that fail to open or to decode.
PlLineA == DatedLine(3, 1, 2022, 8, 30, DefaultMer, DefaultContent)
PlLineB == DatedLine(3, 1, 2022, 8, 30, <<" ", "a", "m">>, <<"Hola">>)
PlLineC == DatedLine(4, 1, 2022, 12, 5, <<" ", "p", "m">>, <<"Hola">>)

PlWaFiles ==
    { WaFileOf(<<PlLineA, PlLineB>>, "none", 0),
      WaFileOf(<<NoticeLine, PlLineC>>, "none", 0),
      WaFileOf(<<PlLineC, PlLineA>>, "undecodable", 2),
      WaFileOf(<<>>, "missing", 0),
      WaFileOf(<<>>, "unreadable", 0) }

PlTgDocs ==
    { TgDocOf(<<Node(FALSE, GoodTitle, "Ana", "hola"),
                Node(FALSE, GoodTitle, NoDiv, " hola ")>>, "none"),
      TgDocOf(<<Node(FALSE, BadTitle, "Bob", "hola"),
                Node(FALSE, Title(4, 1, 2022, 23, 59, 59, <<>>), NoDiv, "hola")>>, "none"),
      TgDocOf(<<>>, "missing"),
      TgDocOf(<<>>, "undecodable") }

\* Directory listings: up to n different files, in any order.
Listings(files, n) ==
    { l \in UNION {[1..k -> files] : k \in 0..n} :
        \A i, j \in 1..Len(l) : i # j => l[i] # l[j] }

PlInit ==
    /\ wa_dir \in Listings(PlWaFiles, MaxFiles)
    /\ tg_dir \in Listings(PlTgDocs, MaxFiles)
    /\ wa_idx = 0
    /\ tg_idx = 0
    /\ all_whatsapp_dfs = <<>>
    /\ all_telegram_dfs = <<>>
    /\ df_whatsapp = <<>>
    /\ df_telegram = <<>>
    /\ df_concat = <<>>
    /\ sort_index = <<>>
    /\ df = <<>>
    /\ pl_pc = "load_whatsapp"

\* One iteration of the WhatsApp loop: parse the file and append what the
\* call returns; an exception out of the call is logged and nothing is appended.
LoadWhatsAppFile ==
    /\ pl_pc = "load_whatsapp"
    /\ wa_idx < Len(wa_dir)
    /\ LET r == parse_whatsapp_lines(wa_dir[wa_idx + 1])
       IN  all_whatsapp_dfs' = IF r.pc = "returned"
                               THEN Append(all_whatsapp_dfs, r.df)
                               ELSE all_whatsapp_dfs
    /\ wa_idx' = wa_idx + 1
    /\ UNCHANGED <<wa_dir, tg_dir, tg_idx, all_telegram_dfs, df_whatsapp, df_telegram,
                   df_concat, sort_index, df, pl_pc>>
    /\ UNCHANGED pl_others

\* After the loop: concat, sort_values, reset_index, then the sender mapping.
SortWhatsApp ==
    /\ pl_pc = "load_whatsapp"
    /\ wa_idx = Len(wa_dir)
    /\ LET rows == Concat(all_whatsapp_dfs)
       IN  \E order \in SortOrders(rows, Len(rows)) :
              df_whatsapp' = MapRows(Reindex(rows, order), WHATSAPP_SENDER_MAPPING, "WhatsApp")
    /\ pl_pc' = "load_telegram"
    /\ UNCHANGED <<wa_dir, wa_idx, tg_dir, tg_idx, all_whatsapp_dfs, all_telegram_dfs,
                   df_telegram, df_concat, sort_index, df>>
    /\ UNCHANGED pl_others

\* One iteration of the Telegram loop.
LoadTelegramFile ==
    /\ pl_pc = "load_telegram"
    /\ tg_idx < Len(tg_dir)
    /\ LET r == parse_telegram_html(tg_dir[tg_idx + 1])
       IN  all_telegram_dfs' = IF r.pc = "returned"
                               THEN Append(all_telegram_dfs, r.df)
                               ELSE all_telegram_dfs
    /\ tg_idx' = tg_idx + 1
    /\ UNCHANGED <<wa_dir, wa_idx, tg_dir, all_whatsapp_dfs, df_whatsapp, df_telegram,
                   df_concat, sort_index, df, pl_pc>>
    /\ UNCHANGED pl_others

SortTelegram ==
    /\ pl_pc = "load_telegram"
    /\ tg_idx = Len(tg_dir)
    /\ LET rows == Concat(all_telegram_dfs)
       IN  \E order \in SortOrders(rows, Len(rows)) :
              df_telegram' = MapRows(Reindex(rows, order), TELEGRAM_SENDER_MAPPING, "Telegram")
    /\ pl_pc' = "unify"
    /\ UNCHANGED <<wa_dir, wa_idx, tg_dir, tg_idx, all_whatsapp_dfs, all_telegram_dfs,
                   df_whatsapp, df_concat, sort_index, df>>
    /\ UNCHANGED pl_others

\* Nothing to process: main returns.
NoData ==
    /\ pl_pc = "unify"
    /\ df_whatsapp = <<>> /\ df_telegram = <<>>
    /\ pl_pc' = "no_data"
    /\ UNCHANGED <<wa_dir, wa_idx, tg_dir, tg_idx, all_whatsapp_dfs, all_telegram_dfs,
                   df_whatsapp, df_telegram, df_concat, sort_index, df>>
    /\ UNCHANGED pl_others

\* pd.concat([df_whatsapp, df_telegram]), sort_values("datetime"), reset_index.
Unify ==
    /\ pl_pc = "unify"
    /\ ~(df_whatsapp = <<>> /\ df_telegram = <<>>)
    /\ df_concat' = df_whatsapp \o df_telegram
    /\ \E order \in SortOrders(df_concat', Len(df_concat')) :
          /\ sort_index' = order
          /\ df' = Reindex(df_concat', order)
    /\ pl_pc' = "merged"
    /\ UNCHANGED <<wa_dir, wa_idx, tg_dir, tg_idx, all_whatsapp_dfs, all_telegram_dfs,
                   df_whatsapp, df_telegram>>
    /\ UNCHANGED pl_others

PlIdle ==
    /\ wa_dir = <<>>
    /\ tg_dir = <<>>
    /\ wa_idx = 0
    /\ tg_idx = 0
    /\ all_whatsapp_dfs = <<>>
    /\ all_telegram_dfs = <<>>
    /\ df_whatsapp = <<>>
    /\ df_telegram = <<>>
    /\ df_concat = <<>>
    /\ sort_index = <<>>
    /\ df = <<>>
    /\ pl_pc = "idle"

PlNext ==
    \/ LoadWhatsAppFile \/ SortWhatsApp
    \/ LoadTelegramFile \/ SortTelegram
    \/ NoData \/ Unify

-----------------------------------------------------------------------------
(* text_cleaning: extract_emojis and clean_text *)

\* Characters.  "LF" and "CR" are the line feed and the carriage return;
\* "U+1F600" (grinning face) and "U+1F1EA" (regional indicator E) lie in the
\* ranges of EMOJI_PATTERN; "U+1F923" (rolling on the floor laughing) is an
\* emoji outside them.
SpaceChars  == {" ", "LF", "CR"}                        \* \s, str.strip()
DigitChars  == {"1", "2", "3", "4", "5", "6", "7"}      \* \d
LetterChars == {"a", "A", "b", "w", "h", "t", "p", "s"}
WordChars   == LetterChars \cup DigitChars \cup {"_"}   \* \w

\* ord(c) for the characters above the ASCII range; the ASCII characters are
\* all below every range of EMOJI_PATTERN.
CodePoint(c) ==
    CASE c = "U+1F600" -> 128512
      [] c = "U+1F1EA" -> 127466
      [] c = "U+1F923" -> 129315
      [] OTHER         -> 127

\* The character class of EMOJI_PATTERN: U+1F600-1F64F, U+1F300-1F5FF,
\* U+1F680-1F6FF, U+1F1E0-1F1FF.
InEmojiRange(c) ==
    \/ CodePoint(c) \in 128512..128591
    \/ CodePoint(c) \in 127744..128511
    \/ CodePoint(c) \in 128640..128767
    \/ CodePoint(c) \in 127462..127487

\* Length of the longest run of characters of S (not of S) that starts at i.
RunIn(s, i, S) ==
    LET stops == {j \in i..(Len(s) + 1) : j = Len(s) + 1 \/ s[j] \notin S}
    IN  (CHOOSE j \in stops : \A k \in stops : j <= k) - i

RunNotIn(s, i, S) ==
    LET stops == {j \in i..(Len(s) + 1) : j = Len(s) + 1 \/ s[j] \in S}
    IN  (CHOOSE j \in stops : \A k \in stops : j <= k) - i

\* \b between s[i-1] and s[i].
WordBoundary(s, i) == (At(s, i - 1) \in WordChars) # (At(s, i) \in WordChars)

\* https?://\S+|www\.\S+ matched at i: the length of the match, 0 for none.
UrlMatchLen(s, i) ==
    LET pre == IF MatchesAt(s, <<"h", "t", "t", "p", "s", ":", "/", "/">>, i) THEN 8
               ELSE IF MatchesAt(s, <<"h", "t", "t", "p", ":", "/", "/">>, i) THEN 7
               ELSE IF MatchesAt(s, <<"w", "w", "w", ".">>, i) THEN 4
               ELSE 0
        rest == RunNotIn(s, i + pre, SpaceChars)
    IN  IF pre > 0 /\ rest > 0 THEN pre + rest ELSE 0

\* \+\d{1,3}[- ]?\d{6,14} matched at i.  The quantifiers are greedy and
\* give back: the match is the first that succeeds with the longest country
\* code, then with the separator, then with the most digits.
PhoneMatchLen(s, i) ==
    LET cands == { c \in (1..3) \X {0, 1} \X (6..14) :
                      /\ \A j \in 1..c[1] : At(s, i + j) \in DigitChars
                      /\ c[2] = 1 => At(s, i + c[1] + 1) \in {"-", " "}
                      /\ \A j \in 1..c[3] : At(s, i + c[1] + c[2] + j) \in DigitChars }
        key(c) == c[1] * 100 + c[2] * 50 + c[3]
    IN  IF At(s, i) # "+" \/ cands = {} THEN 0
        ELSE LET best == CHOOSE c \in cands : \A o \in cands : key(o) <= key(c)
             IN  1 + best[1] + best[2] + best[3]

\* \b\d{1,2}[/-]\d{1,2}[/-]\d{2,4}\b matched at i.
DateMatchLen(s, i) ==
    LET cands == { c \in (1..2) \X (1..2) \X (2..4) :
                      /\ \A j \in 0..(c[1] - 1) : At(s, i + j) \in DigitChars
                      /\ At(s, i + c[1]) \in {"/", "-"}
                      /\ \A j \in 1..c[2] : At(s, i + c[1] + j) \in DigitChars
                      /\ At(s, i + c[1] + c[2] + 1) \in {"/", "-"}
                      /\ \A j \in 1..c[3] : At(s, i + c[1] + c[2] + 1 + j) \in DigitChars
                      /\ WordBoundary(s, i + c[1] + c[2] + c[3] + 2) }
        key(c) == c[1] * 100 + c[2] * 10 + c[3]
    IN  IF ~WordBoundary(s, i) \/ cands = {} THEN 0
        ELSE LET best == CHOOSE c \in cands : \A o \in cands : key(o) <= key(c)
             IN  best[1] + best[2] + best[3] + 2

\* \b\d{1,2}:\d{2}\b matched at i.
TimeMatchLen(s, i) ==
    LET cands == { h \in 1..2 :
                      /\ \A j \in 0..(h - 1) : At(s, i + j) \in DigitChars
                      /\ At(s, i + h) = ":"
                      /\ At(s, i + h + 1) \in DigitChars
                      /\ At(s, i + h + 2) \in DigitChars
                      /\ WordBoundary(s, i + h + 3) }
    IN  IF ~WordBoundary(s, i) \/ cands = {} THEN 0
        ELSE (CHOOSE h \in cands : \A o \in cands : o <= h) + 3

\* The length of the match of a compiled pattern at position i of s, 0 when
\* it does not match there (no pattern matches the empty string).
MatchLen(pat, s, i) ==
    CASE pat = "URL_PATTERN"     -> UrlMatchLen(s, i)
      [] pat = "EMOJI_PATTERN"   -> RunIn(s, i, {c \in SeqRange(s) : InEmojiRange(c)})
      [] pat = "MENTION_PATTERN" ->                                 \* @\w+
           IF s[i] = "@" /\ RunIn(s, i + 1, WordChars) > 0
           THEN 1 + RunIn(s, i + 1, WordChars) ELSE 0
      [] pat = "PHONE_PATTERN"   -> PhoneMatchLen(s, i)
      [] pat = "DATE_PATTERN"    -> DateMatchLen(s, i)
      [] pat = "TIME_PATTERN"    -> TimeMatchLen(s, i)
      [] pat = "[^\\w\\s]"       ->
           IF s[i] \notin WordChars /\ s[i] \notin SpaceChars THEN 1 ELSE 0
      [] pat = "REPEATED_CHARS"  ->                                 \* (.)\1{2,}
           IF s[i] # "LF" /\ RunIn(s, i, {s[i]}) >= 3
           THEN RunIn(s, i, {s[i]}) ELSE 0
      [] pat = "\\s+"            -> RunIn(s, i, SpaceChars)

\* pattern.sub(repl, s): the matches are found left to right and do not
\* overlap; REPEATED_CHARS is substituted by r'\1', the repeated character.
RECURSIVE SubFrom(_, _, _, _)
SubFrom(pat, s, repl, i) ==
    IF i > Len(s) THEN <<>>
    ELSE LET n == MatchLen(pat, s, i)
         IN  IF n = 0 THEN <<s[i]>> \o SubFrom(pat, s, repl, i + 1)
             ELSE (IF pat = "REPEATED_CHARS" THEN <<s[i]>> ELSE repl)
                  \o SubFrom(pat, s, repl, i + n)

Sub(pat, repl, s) == SubFrom(pat, s, repl, 1)

\* pattern.findall(s) for a pattern without groups: the matched strings.
RECURSIVE FindAllFrom(_, _, _)
FindAllFrom(pat, s, i) ==
    IF i > Len(s) THEN <<>>
    ELSE LET n == MatchLen(pat, s, i)
         IN  IF n = 0 THEN FindAllFrom(pat, s, i + 1)
             ELSE <<SubSeq(s, i, i + n - 1)>> \o FindAllFrom(pat, s, i + n)

\* findall that stops after the first match.
FindAll_FirstOnly(pat, s) ==
    LET hits == {i \in 1..Len(s) : MatchLen(pat, s, i) > 0}
    IN  IF hits = {} THEN <<>>
        ELSE LET i == CHOOSE h \in hits : \A o \in hits : h <= o
             IN  <<SubSeq(s, i, i + MatchLen(pat, s, i) - 1)>>

FindAll(pat, s) == FindAllFrom(pat, s, 1)

\* sep.join(parts)
RECURSIVE Join(_, _)
Join(sep, parts) ==
    IF parts = <<>> THEN <<>>
    ELSE IF Len(parts) = 1 THEN parts[1]
    ELSE parts[1] \o sep \o Join(sep, Tail(parts))

\* s.strip()
Strip(s) ==
    LET keep == {i \in 1..Len(s) : s[i] \notin SpaceChars}
    IN  IF keep = {} THEN <<>>
        ELSE SubSeq(s, CHOOSE i \in keep : \A o \in keep : i <= o,
                       CHOOSE i \in keep : \A o \in keep : o <= i)

\* def extract_emojis(text)
extract_emojis(text) ==
    IF Strip(text) = <<>> THEN <<>>
    ELSE LET found_emojis == FindAll("EMOJI_PATTERN", text)
         IN  Join(<<>>, found_emojis)

\* The tokens of nlp(text).  The text that reaches spaCy holds word
\* characters and single blanks only, and the tokenizer cuts it at the blanks.
RECURSIVE TokensFrom(_, _)
TokensFrom(s, i) ==
    IF i > Len(s) THEN <<>>
    ELSE IF s[i] \in SpaceChars THEN TokensFrom(s, i + 1)
    ELSE LET n == RunNotIn(s, i, SpaceChars)
         IN  <<SubSeq(s, i, i + n - 1)>> \o TokensFrom(s, i + n)

nlp(text) == TokensFrom(text, 1)

\* The members of spanish_stopwords that the characters above can spell.
spanish_stopwords == { <<"a">> }

\* token.like_num, for a token of word characters: a number written in digits.
like_num(token) == \A k \in 1..Len(token) : token[k] \in DigitChars

\* Lines 92-98: the token filter and the join.
FilterTokens(doc) ==
    LET kept == SelectSeq(doc, LAMBDA token :
                    LowerSeq(token) \notin spanish_stopwords /\ ~like_num(token))
    IN  Join(<<" ">>, [k \in 1..Len(kept) |-> LowerSeq(kept[k])])

\* clean_text without the step that reduces repeated characters.
clean_text_KeepRepeats(text) ==
    IF Strip(text) = <<>> THEN <<>>
    ELSE LET t0 == Replace(Replace(LowerSeq(text), <<"LF">>, <<" ">>), <<"CR">>, <<" ">>)
             t1 == Sub("URL_PATTERN", <<>>, t0)
             t2 == Sub("EMOJI_PATTERN", <<>>, t1)
             t3 == Sub("MENTION_PATTERN", <<>>, t2)
             t4 == Sub("PHONE_PATTERN", <<>>, t3)
             t5 == Sub("DATE_PATTERN", <<>>, t4)
             t6 == Sub("TIME_PATTERN", <<>>, t5)
             t7 == Sub("[^\\w\\s]", <<" ">>, t6)
             t9 == Strip(Sub("\\s+", <<" ">>, t7))
         IN  FilterTokens(nlp(t9))

\* def clean_text(text)
clean_text(text) ==
    IF Strip(text) = <<>> THEN <<>>
    ELSE LET t0 == Replace(Replace(LowerSeq(text), <<"LF">>, <<" ">>), <<"CR">>, <<" ">>)
             t1 == Sub("URL_PATTERN", <<>>, t0)
             t2 == Sub("EMOJI_PATTERN", <<>>, t1)
             t3 == Sub("MENTION_PATTERN", <<>>, t2)
             t4 == Sub("PHONE_PATTERN", <<>>, t3)
             t5 == Sub("DATE_PATTERN", <<>>, t4)
             t6 == Sub("TIME_PATTERN", <<>>, t5)
             t7 == Sub("[^\\w\\s]", <<" ">>, t6)
             t8 == Sub("REPEATED_CHARS", <<>>, t7)
             t9 == Strip(Sub("\\s+", <<" ">>, t8))
         IN  FilterTokens(nlp(t9))

\* The pieces the messages of the model are made of.
Fragments ==
    { <<"a">>, <<"A", "a">>, <<"b", "b", "b">>, <<" ">>, <<"LF">>, <<"_">>,
      <<"@">>, <<"@", "b">>,
      <<"U+1F600">>, <<"U+1F1EA">>, <<"U+1F923">>,
      <<"w", "w", "w", ".", "a">>,                            \* www.a
      <<"h", "t", "t", "p", "s", ":", "/", "/", "a">>,        \* https://a
      <<"+", "1", "2", "3", "4", "5", "6", "7">>,             \* +1234567
      <<"1", "/", "2", "/", "2", "2">>,                       \* 1/2/22
      <<"1", ":", "2", "3">>,                                 \* 1:23
      <<"1">> }

\* df["message"]: a message of up to MaxFrags pieces.
NmInit ==
    /\ \E n \in 0..MaxFrags : \E fs \in [1..n -> Fragments] : message = Join(<<>>, fs)
    /\ message_emoji = <<>>
    /\ message_clean = <<>>
    /\ nm_pc = "raw"

\* df["message_emoji"] = df["message"].apply(extract_emojis)
NmExtract ==
    /\ nm_pc = "raw"
    /\ message_emoji' = extract_emojis(message)
    /\ nm_pc' = "extracted"
    /\ UNCHANGED <<message, message_clean>>
    /\ UNCHANGED nm_others

\* df["message_clean"] = df["message"].apply(clean_text)
NmClean ==
    /\ nm_pc = "extracted"
    /\ message_clean' = clean_text(message)
    /\ nm_pc' = "cleaned"
    /\ UNCHANGED <<message, message_emoji>>
    /\ UNCHANGED nm_others

\* The normaliser is not running (the other components' specifications).
NmIdle ==
    /\ message = <<>>
    /\ message_emoji = <<>>
    /\ message_clean = <<>>
    /\ nm_pc = "idle"

NmNext == NmExtract \/ NmClean

-----------------------------------------------------------------------------
(* Specifications, one per component *)

InitClassify == ClInit /\ WaIdle /\ TgIdle /\ PlIdle /\ NmIdle
SpecClassify == InitClassify /\ [][ClNext]_vars

InitWhatsApp == WaInit /\ ClIdle /\ TgIdle /\ PlIdle /\ NmIdle
SpecWhatsApp == InitWhatsApp /\ [][WaNext]_vars

InitTelegram == TgInit /\ ClIdle /\ WaIdle /\ PlIdle /\ NmIdle
SpecTelegram == InitTelegram /\ [][TgNext]_vars

InitPipeline == PlInit /\ ClIdle /\ WaIdle /\ TgIdle /\ NmIdle
SpecPipeline == InitPipeline /\ [][PlNext]_vars

InitNormalize == NmInit /\ ClIdle /\ WaIdle /\ TgIdle /\ PlIdle
SpecNormalize == InitNormalize /\ [][NmNext]_vars

-----------------------------------------------------------------------------
(* Properties of classify_texts_in_bulk *)

NumChunks == Len(responses)
ChunkStart(k) == (k - 1) * max_per_chunk
ChunkSize(k) == BatchLen(ChunkStart(k))
\* The positions of texts, and so of the result, that belong to chunk k.
ChunkPositions(k) == (ChunkStart(k) + 1) .. (ChunkStart(k) + ChunkSize(k))

\* C1: the returned list has exactly one label per input text, whatever the
\* remote service did on each chunk (raise, not JSON, JSON of any shape).
C1_LengthEqualsInput ==
    cl_pc = "returned" => Len(results) = Len(texts)

\* C2: when the call for chunk k raises or its content is not JSON, the result
\* positions of chunk k all hold the fallback label, and the result positions
\* of every other chunk hold the labels that chunk's own response yields.
C2_ChunkFaultIsolation ==
    cl_pc = "returned" =>
        \A k \in 1..NumChunks :
            responses[k].kind \in {"raise", "notjson"} =>
                /\ \A p \in ChunkPositions(k) :
                      p <= Len(results) /\ results[p] = UNKNOWN_EMOTION_LABEL
                /\ \A j \in (1..NumChunks) \ {k} :
                      \A p \in ChunkPositions(j) :
                          /\ p <= Len(results)
                          /\ results[p] =
                               ChunkAppended(ChunkSize(j), responses[j])[p - ChunkStart(j)]

\* C3: every returned label is a member of VALID_EMOTIONS as configured, or is
\* exactly UNKNOWN_EMOTION_LABEL.
C3_LabelsInClosedSet ==
    cl_pc = "returned" =>
        \A p \in 1..Len(results) :
            results[p] \in SeqRange(VALID_EMOTIONS) \cup {UNKNOWN_EMOTION_LABEL}

\* C4: in a chunk whose response parsed as a JSON object, item i gets the
\* fallback label when key str(i) is absent or its value is not,
\* case-insensitively, a valid label; otherwise it gets the label returned
\* under key str(i), at the item's own position.
C4_PerItemLabel ==
    cl_pc = "returned" =>
        \A k \in 1..NumChunks :
            responses[k].kind = "json_object" =>
                \A i \in 1..ChunkSize(k) :
                    LET v == responses[k].obj[i]
                        p == ChunkStart(k) + i
                    IN  /\ p <= Len(results)
                        /\ results[p] =
                             IF v = Absent \/ v = NonString \/ Lower(v) \notin LoweredValid
                             THEN UNKNOWN_EMOTION_LABEL
                             ELSE v

-----------------------------------------------------------------------------
(* Properties of parse_whatsapp_lines *)

\* The meridiem markers the format tolerates: "a. m.", "a.m.", "am" and the
\* p forms, after the blank that follows the minute.
ToleratedMeridiems ==
    { <<" ", "a", ".", " ", "m", ".">>, <<" ", "a", ".", "m", ".">>, <<" ", "a", "m">>,
      <<" ", "p", ".", " ", "m", ".">>, <<" ", "p", ".", "m", ".">>, <<" ", "p", "m">> }

\* A line '<d/m/yyyy>, <h:mm> <meridiem> - <rest>' with a real date, a
\* 12-hour time and a tolerated meridiem.
WellFormedLine(line) ==
    /\ line.kind = "dated"
    /\ line.mer \in ToleratedMeridiems
    /\ line.month \in 1..12
    /\ line.day \in 1..DaysInMonth(line.month, line.year)
    /\ line.hour \in 1..12
    /\ line.minute \in 0..59

\* The 12-hour date-time of a well-formed line, read day-first.
ExpectedTimestamp(line) ==
    [year |-> line.year, month |-> line.month, day |-> line.day,
     hour |-> (line.hour % 12) + (IF line.mer[2] = "p" THEN 12 ELSE 0),
     minute |-> line.minute, second |-> 0]

\* <rest> split on its first ": ".
ExpectedSplit(rest) ==
    IF \E i \in 1..Len(rest) : MatchesAt(rest, ColonSpace, i)
    THEN LET i == CHOOSE i \in 1..Len(rest) :
                     /\ MatchesAt(rest, ColonSpace, i)
                     /\ \A j \in 1..(i - 1) : ~MatchesAt(rest, ColonSpace, j)
         IN  [sender |-> SubSeq(rest, 1, i - 1), message |-> SubSeq(rest, i + 2, Len(rest))]
    ELSE [sender |-> <<"SYSTEM">>, message |-> rest]

ExpectedRecord(line) ==
    [datetime |-> ExpectedTimestamp(line),
     sender   |-> ExpectedSplit(line.content).sender,
     message  |-> ExpectedSplit(line.content).message]

\* C5: every well-formed line of a readable file, whichever tolerated
\* meridiem variant it carries, yields its record: the 12-hour date-time read
\* day-first, and the rest split on its first ": " (sender "SYSTEM" without it).
C5_WellFormedLineYieldsRecord ==
    (wa_pc = "returned" /\ wa_file.fault = "none") =>
        \A i \in 1..Len(wa_file.lines) :
            WellFormedLine(wa_file.lines[i]) =>
                ExpectedRecord(wa_file.lines[i]) \in SeqRange(wa_df)

\* A line the scan keeps: it matches the grammar and its date-time parses.
KeptLine(line) == PatternMatches(line) /\ ~StrptimeFails(line)

\* The records of the kept lines, in line order.
RecordsOf(lines) ==
    LET kept == SelectSeq(lines, KeptLine)
    IN  [k \in 1..Len(kept) |-> LineRecord(kept[k])]

-----------------------------------------------------------------------------
(* Properties of parse_telegram_html *)

\* A node that is to yield a record: a regular node with a date element whose
\* title parses and a text container that is not empty after trimming.
NodeKept(node) ==
    /\ ~node.service
    /\ node.date.kind = "title"
    /\ ~TitleFails(node.date)
    /\ node.text # NoDiv
    /\ StripText(node.text) # ""

\* The sender a node without from_name is to inherit at position i of the
\* document: the explicit sender of the most recent earlier node that
\* carries a from_name field, or "Unknown" when there is none.
InheritedSender(nodes, i) ==
    LET carriers == {j \in 1..(i - 1) : nodes[j].from_name # NoDiv}
    IN  IF carriers = {} THEN "Unknown"
        ELSE LET j == CHOOSE j \in carriers : \A k \in carriers : k <= j
             IN  StripText(nodes[j].from_name)

\* C7: the record of a node without a from_name field has the explicit sender
\* of the most recent preceding node of the same document that carried one,
\* whether or not that node produced a record, and "Unknown" when no
\* preceding node of the document carried one.
C7_InheritedSender ==
    (tg_pc = "scan" /\ div_num >= 1) =>
        LET node == tg_doc.nodes[div_num]
        IN  (NodeKept(node) /\ node.from_name = NoDiv) =>
                /\ messages_list # <<>>
                /\ messages_list[Len(messages_list)].sender
                     = InheritedSender(tg_doc.nodes, div_num)

-----------------------------------------------------------------------------
(* Properties of the multi-file run and of the merge *)

IsNonDecreasing(rows) ==
    \A i \in 1..(Len(rows) - 1) : ~DtLess(rows[i + 1].datetime, rows[i].datetime)

\* C10 as stated: the merged stream is non-decreasing in timestamp and rows
\* with equal timestamps keep their order from the concatenated input.
C10_MergedSortedStable ==
    pl_pc = "merged" =>
        /\ IsNonDecreasing(df)
        /\ \A i, j \in 1..Len(df) :
              (i < j /\ DtKey(df[i].datetime) = DtKey(df[j].datetime))
                  => sort_index[i] < sort_index[j]

\* C10 amended: the merged stream is non-decreasing in timestamp and is a
\* rearrangement of the concatenation of the WhatsApp and Telegram rows.
C10_MergedSortedRearrangement ==
    pl_pc = "merged" =>
        /\ IsNonDecreasing(df)
        /\ df_concat = df_whatsapp \o df_telegram
        /\ Len(df) = Len(df_concat)
        /\ SeqRange(sort_index) = 1..Len(df_concat)
        /\ df = Reindex(df_concat, sort_index)

\* C10 witness: a merge of rows of both channels that had to move rows: the
\* concatenation was not in timestamp order.
C10_Witness ==
    /\ pl_pc = "merged"
    /\ df_whatsapp # <<>> /\ df_telegram # <<>>
    /\ ~IsNonDecreasing(df_concat)
    /\ IsNonDecreasing(df)

-----------------------------------------------------------------------------
(* Properties of the normaliser *)

\* A character of the emoji ranges, or the emoji outside them.
HasEmoji(s) == \E k \in 1..Len(s) : InEmojiRange(s[k]) \/ s[k] = "U+1F923"
\* An '@' followed by a word character: where MENTION_PATTERN matches.
HasMention(s) == \E k \in 1..Len(s) : s[k] = "@" /\ At(s, k + 1) \in WordChars
HasRunOfThree(s) == \E k \in 1..(Len(s) - 2) : s[k] = s[k + 1] /\ s[k + 1] = s[k + 2]

\* C11: the output of clean_text holds no emoji character, no '@'-mention
\* and no run of three or more identical consecutive characters,
\* and it is the empty string when the input is empty or all whitespace.
C11_CleanTextOutput ==
    nm_pc = "cleaned" =>
        /\ ~HasEmoji(message_clean)
        /\ ~HasMention(message_clean)
        /\ ~HasRunOfThree(message_clean)
        /\ (\A k \in 1..Len(message) : message[k] \in SpaceChars) => message_clean = <<>>

\* C11 witness: a message with an emoji, a mention and a run of three was
\* cleaned to a text that is not empty.
C11_Witness ==
    /\ nm_pc = "cleaned"
    /\ HasEmoji(message)
    /\ HasMention(message)
    /\ HasRunOfThree(message)
    /\ message_clean # <<>>

\* C12: extract_emojis gives the characters of its input that lie in the
\* emoji ranges, in their order; applied to its own output it gives that
\* output again; and it gives the empty string for a text without emoji.
C12_ExtractEmojis ==
    nm_pc \in {"extracted", "cleaned"} =>
        /\ message_emoji = SelectSeq(message, InEmojiRange)
        /\ extract_emojis(message_emoji) = message_emoji
        /\ (\A k \in 1..Len(message) : ~InEmojiRange(message[k])) => message_emoji = <<>>

\* C12 witness: two different emoji with other text between them were
\* extracted, in their order.
C12_Witness ==
    /\ nm_pc = "extracted"
    /\ Len(message_emoji) = 2
    /\ message_emoji[1] # message_emoji[2]
    /\ \E i, j, k \in 1..Len(message) :
          /\ i < j /\ j < k
          /\ InEmojiRange(message[i]) /\ ~InEmojiRange(message[j]) /\ InEmojiRange(message[k])

-----------------------------------------------------------------------------
(* Properties of the chunk loop *)

\* C13: the k-th remote call is made with the k-th contiguous chunk of texts
\* (at most max_per_chunk items, in input order), so each chunk is called
\* once and a failed chunk is not called again; everything chunk k appends
\* (parsed or fallback) is in the result when call k+1 is issued; and the
\* call returns after ceil(len(texts) / max_per_chunk) calls, none for an
\* empty input.
C13_OneCallPerChunkInOrder ==
    /\ Len(calls) = Len(responses)
    /\ \A k \in 1..Len(calls) :
          /\ calls[k].batch =
                SubSeq(texts, (k - 1) * max_per_chunk + 1, Min(k * max_per_chunk, Len(texts)))
          /\ Len(calls[k].batch) \in 1..max_per_chunk
          /\ (IF k < Len(calls) THEN calls[k + 1].appended ELSE Len(results)) =
                calls[k].appended + Len(ChunkAppended(Len(calls[k].batch), responses[k]))
    /\ calls # <<>> => calls[1].appended = 0
    /\ cl_pc = "returned" =>
          Len(calls) = (Len(texts) + max_per_chunk - 1) \div max_per_chunk

\* C13 witness: five texts in chunks of two were classified with three
\* calls, the first of which raised and the second of which answered.
C13_Witness ==
    /\ cl_pc = "returned"
    /\ Len(texts) = 5
    /\ max_per_chunk = 2
    /\ Len(calls) = 3
    /\ responses[1].kind = "raise"
    /\ responses[2].kind = "json_object"
    /\ Len(calls[3].batch) = 1

====
